---- MODULE Spec2Model ----
(***************************************************************************)
(* Model of the custom container pack/unpack code of FileManager:          *)
(*   src/core/customized_packaging_unpacking.py  (pack_files, unpack_file) *)
(*   src/core/packaging.py     (SequentialPackager, ChunkedPackager)       *)
(*   src/utils/helpers.py                        (validate_paths)          *)
(* Files and containers are sequences of bytes (0..255).  The library      *)
(* primitives (SHA-256, PBKDF2-HMAC, AES) are replaced by small executable *)
(* stand-ins that keep the properties the code relies on; each stand-in    *)
(* says which.                                                             *)
(***************************************************************************)
EXTENDS Integers, Sequences, FiniteSets, TLC

VARIABLES
    tool,       \* "custom" (pack_files/unpack_file) or "sequential" (SequentialPackager)
    files,      \* the input list given to pack: records [path, data, exists]
    secret,     \* the secret given to pack
    usecret,    \* the secret given to unpack
    out,        \* the file at the output path: [exists, data]
    out0,       \* the file at the output path before the pack call
    outdir,     \* the output directory of unpack: [exists, files]
    pc,         \* position of the running call
    err,        \* the exception that ended the last call, "" when none
    iv,         \* cipher.iv of the pack call
    fileData,   \* pack_files: file_data built so far
    idx,        \* pack: index of the next input file
    names,      \* names of the entries pack put in the container
    pos,        \* unpack: in_file.tell()
    chain,      \* CBC chaining block of the cipher object of the running call
    reported,   \* unpack: names of the files written and reported as extracted
    keyDerived, \* unpack: derive_key has been called
    parsed,     \* unpack: header fields decoded so far, in order
    tampered,   \* a byte of the container was changed after pack
    packed,     \* the pack call: "none", "running", "ok", "failed" or "cancelled"
    block_map,  \* ChunkedPackager.block_map: block id -> chunk
    file_blocks,\* ChunkedPackager.package: file_blocks, one record per input file
    all_blocks, \* ChunkedPackager.package: the block ids in their shuffled order
    progress    \* the values handed to the progress callback, in order

vars == << tool, files, secret, usecret, out, out0, outdir, pc, err, iv,
           fileData, idx, names, pos, chain, reported, keyDerived, parsed,
           tampered, packed, block_map, file_blocks, all_blocks, progress >>

----------------------------------------------------------------------------
(* Bounds of the model *)

MaxFiles == 2

----------------------------------------------------------------------------
(* Program constants *)

MAGIC_NUMBER == << 67, 70, 71, 80 >>            \* b'CFGP'
VERSION == 1
KEY_SALT == << 115, 97, 108, 116, 95, 102, 111, 114, 95, 107, 101, 121,
              95, 100, 101, 114, 105, 118, 97, 116, 105, 111, 110 >>  \* b'salt_for_key_derivation'
AES_block_size == 16
HMAC_block_size == 64
HEADER_MAGIC == << 67, 85, 83, 80, 75, 71 >>    \* b'CUSPKG'
BasePackager_VERSION == 3

----------------------------------------------------------------------------
(* Bytes *)

Min(a, b) == IF a < b THEN a ELSE b

Rep(b, n) == [i \in 1..n |-> b]

\* Values at or above ReadLimit exceed every file length of the model; a read
\* of that many bytes returns what is left of the file.
ReadLimit == 2^24

\* struct.pack('!I' / '!Q' / '!H' / '!B', n): big-endian, w bytes
RECURSIVE pack_be(_, _)
pack_be(n, w) ==
    IF w = 0 THEN << >>
    ELSE Append(pack_be(n \div 256, w - 1), n % 256)

\* struct.unpack of a big-endian unsigned integer, saturated at ReadLimit
RECURSIVE unpack_be(_)
unpack_be(bs) ==
    IF bs = << >> THEN 0
    ELSE LET hi == unpack_be(SubSeq(bs, 1, Len(bs) - 1))
         IN  IF hi >= ReadLimit \div 256 THEN ReadLimit
             ELSE hi * 256 + bs[Len(bs)]

\* file.read(n) at offset p (0-based) of the bytes d
Read(d, p, n) == SubSeq(d, p + 1, Min(p + n, Len(d)))

\* sum of w(i) * d[i] for i in lo..hi, modulo 65521 (halving keeps the
\* evaluation shallow)
RECURSIVE WSum(_, _, _, _)
WSum(d, lo, hi, positional) ==
    IF lo > hi THEN 0
    ELSE IF lo = hi THEN ((IF positional THEN lo ELSE 1) * d[lo]) % 65521
    ELSE LET mid == (lo + hi) \div 2
         IN  (WSum(d, lo, mid, positional) + WSum(d, mid + 1, hi, positional)) % 65521

Sum1(d) == WSum(d, 1, Len(d), FALSE)

Sum2(d) == WSum(d, 1, Len(d), TRUE)

\* hashlib.sha256(d).digest(): 32 bytes.  Stand-in: a positional checksum; two
\* inputs that differ in one byte, or in length by less than 255, get
\* different digests.  The first byte is never 0, as for 255 of 256 digests.
sha256(d) ==
    LET s1 == Sum1(d)
        s2 == Sum2(d)
    IN  [j \in 1..32 |-> IF j = 1 THEN 1 + (s1 % 255)
                         ELSE (s1 * j + s2 + Len(d) * (j + 1)) % 256]

\* The key HMAC uses: a key longer than the hash block is hashed, a shorter
\* one is padded with zero bytes to the block size (RFC 2104).
HmacKey(k) ==
    IF Len(k) > HMAC_block_size
    THEN sha256(k) \o Rep(0, HMAC_block_size - 32)
    ELSE k \o Rep(0, HMAC_block_size - Len(k))

\* derive_key(secret_key, salt): PBKDF2-HMAC-SHA256, dklen = 32.  Stand-in:
\* a function of the HMAC key and the salt, injective in the first 32 bytes of
\* the HMAC key.
derive_key(secret_key, salt) ==
    LET hk == HmacKey(secret_key)
        s  == Sum1(salt)
    IN  [j \in 1..32 |-> (hk[j] + s + j) % 256]

\* Stand-in for the AES-256 block transformation: byte j of a block is shifted
\* by a key byte; it is a permutation of the blocks for every key.
KeyByte(key, j) == (key[j] + key[j + AES_block_size]) % 256

\* cipher.encrypt(pt) in CBC mode, prev the chaining block (the IV at first);
\* Len(pt) is a multiple of the block size.  The chaining XOR is modelled by
\* addition modulo 256.
RECURSIVE cbc_encrypt(_, _, _)
cbc_encrypt(key, prev, pt) ==
    IF pt = << >> THEN << >>
    ELSE LET c == [j \in 1..AES_block_size |->
                      (pt[j] + prev[j] + KeyByte(key, j)) % 256]
         IN  c \o cbc_encrypt(key, c, SubSeq(pt, AES_block_size + 1, Len(pt)))

\* cipher.decrypt(ct) in CBC mode; Len(ct) is a multiple of the block size
RECURSIVE cbc_decrypt(_, _, _)
cbc_decrypt(key, prev, ct) ==
    IF ct = << >> THEN << >>
    ELSE LET c == SubSeq(ct, 1, AES_block_size)
             p == [j \in 1..AES_block_size |->
                      (c[j] - prev[j] - KeyByte(key, j) + 768) % 256]
         IN  p \o cbc_decrypt(key, c, SubSeq(ct, AES_block_size + 1, Len(ct)))

\* the chaining block of the cipher object after it processed ct
NextChain(prev, ct) ==
    IF ct = << >> THEN prev
    ELSE SubSeq(ct, Len(ct) - AES_block_size + 1, Len(ct))

\* Crypto.Util.Padding.pad(data, block_size): PKCS#7
pad(data) ==
    LET n == AES_block_size - (Len(data) % AES_block_size)
    IN  data \o Rep(n, n)

\* Crypto.Util.Padding.unpad(padded, block_size): [ok, data]
unpad(padded) ==
    LET n == Len(padded)
    IN  IF n = 0 \/ n % AES_block_size # 0 THEN [ok |-> FALSE, data |-> << >>]
        ELSE LET k == padded[n]
             IN  IF k < 1 \/ k > Min(AES_block_size, n)
                 THEN [ok |-> FALSE, data |-> << >>]
                 ELSE IF \E i \in (n - k + 1)..n : padded[i] # k
                 THEN [ok |-> FALSE, data |-> << >>]
                 ELSE [ok |-> TRUE, data |-> SubSeq(padded, 1, n - k)]

----------------------------------------------------------------------------
(* Inputs *)

Tools == { "custom", "sequential", "chunked" }

FileSizes == { 0, 1, AES_block_size, AES_block_size + 1 }

\* input paths <<directory, basename>>; two of them share the basename b'a'
InputPaths == { << 1, << 97 >> >>, << 2, << 97 >> >>, << 1, << 98 >> >> }

\* content byte of the files called b'a' (1) and b'b' (65)
FillOf(base) == IF base = << 97 >> THEN 1 ELSE 65

MissingFile == [path |-> << 1, << 109 >> >>, data |-> << >>, exists |-> FALSE]

FileChoices ==
    { [path |-> p, data |-> Rep(FillOf(p[2]), n), exists |-> TRUE] :
          p \in InputPaths, n \in FileSizes }
    \cup { MissingFile }

\* one path has one content
Consistent(fs) ==
    \A i, j \in DOMAIN fs : fs[i].path = fs[j].path => fs[i] = fs[j]

InputLists ==
    { fs \in UNION { [1..k -> FileChoices] : k \in 0..MaxFiles } : Consistent(fs) }

Secrets == { << 107 >>, << 120 >> }                     \* b'k', b'x'

USecrets == Secrets \cup { s \o << 0 >> : s \in Secrets }

IVs == { Rep(3, AES_block_size), Rep(200, AES_block_size) }

Absent == [exists |-> FALSE, data |-> << >>]

OnDisk(d) == [exists |-> TRUE, data |-> d]

OldFile == OnDisk(<< 9, 9 >>)

\* os.path.basename(file_path).encode('utf-8')
basename(path) == path[2]

\* writing data to name in a directory listing (a set of [name, data])
Put(listing, name, data) ==
    { f \in listing : f.name # name } \cup { [name |-> name, data |-> data] }

----------------------------------------------------------------------------
(* pack_files *)

\* the header pack_files builds: magic, version, IV, first half of the key
PackHeader(key, v) ==
    MAGIC_NUMBER \o pack_be(VERSION, 4) \o v \o SubSeq(key, 1, 16)

\* one file entry: name length, name, plaintext size, ciphertext
FileEntry(name, size, encrypted) ==
    pack_be(Len(name), 4) \o name \o pack_be(size, 8) \o encrypted

\* pack_files, lines 37-43: the key is derived and the cipher created
PackStart ==
    /\ tool = "custom"
    /\ pc = "idle"
    /\ \E v \in IVs : iv' = v /\ chain' = v
    /\ pc' = "p_read"
    /\ idx' = 1
    /\ fileData' = << >>
    /\ names' = << >>
    /\ packed' = "running"
    /\ UNCHANGED << block_map, file_blocks, all_blocks, progress, tool, files, secret, usecret, out, out0, outdir, err, pos,
                    reported, keyDerived, parsed, tampered >>

\* an iteration that passes over an input file that does not exist
PackReadFile_SkipMissing ==
    /\ tool = "custom"
    /\ pc = "p_read"
    /\ idx <= Len(files)
    /\ LET f == files[idx]
           key == derive_key(secret, KEY_SALT)
           enc == cbc_encrypt(key, chain, pad(f.data))
       IN  IF ~f.exists
           THEN UNCHANGED << fileData, names, chain >>
           ELSE /\ fileData' = fileData \o FileEntry(basename(f.path), Len(f.data), enc)
                /\ names' = Append(names, basename(f.path))
                /\ chain' = NextChain(chain, enc)
    /\ idx' = idx + 1
    /\ UNCHANGED << block_map, file_blocks, all_blocks, progress, tool, files, secret,
                    usecret, out, out0, outdir, pc, err, iv, pos, reported, keyDerived,
                    parsed, tampered, packed >>

\* pack_files, lines 47-59: one iteration over input_files
PackReadFile ==
    /\ tool = "custom"
    /\ pc = "p_read"
    /\ idx <= Len(files)
    /\ LET f == files[idx]
           key == derive_key(secret, KEY_SALT)
           enc == cbc_encrypt(key, chain, pad(f.data))
       IN  IF ~f.exists
           THEN /\ pc' = "pack_failed"
                /\ err' = "FileNotFoundError"
                /\ UNCHANGED << fileData, idx, names, chain >>
           ELSE /\ fileData' = fileData \o FileEntry(basename(f.path), Len(f.data), enc)
                /\ names' = Append(names, basename(f.path))
                /\ chain' = NextChain(chain, enc)
                /\ idx' = idx + 1
                /\ UNCHANGED << pc, err >>
    /\ packed' = (IF files[idx].exists THEN packed ELSE "failed")
    /\ UNCHANGED << block_map, file_blocks, all_blocks, progress, tool, files, secret, usecret, out, out0, outdir, iv, pos,
                    reported, keyDerived, parsed, tampered >>

\* pack_files, line 65: open(output_path, 'wb') creates or truncates the file
PackOpen ==
    /\ tool = "custom"
    /\ pc = "p_read"
    /\ idx > Len(files)
    /\ out' = OnDisk(<< >>)
    /\ pc' = "p_header"
    /\ UNCHANGED << block_map, file_blocks, all_blocks, progress, tool, files, secret, usecret, out0, outdir, err, iv, fileData,
                    idx, names, pos, chain, reported, keyDerived, parsed, tampered, packed >>

\* pack_files, line 66
PackWriteHeader ==
    /\ tool = "custom"
    /\ pc = "p_header"
    /\ out' = OnDisk(out.data \o PackHeader(derive_key(secret, KEY_SALT), iv))
    /\ pc' = "p_data"
    /\ UNCHANGED << block_map, file_blocks, all_blocks, progress, tool, files, secret, usecret, out0, outdir, err, iv, fileData,
                    idx, names, pos, chain, reported, keyDerived, parsed, tampered, packed >>

\* pack_files, line 67
PackWriteData ==
    /\ tool = "custom"
    /\ pc = "p_data"
    /\ out' = OnDisk(out.data \o fileData)
    /\ pc' = "p_footer"
    /\ UNCHANGED << block_map, file_blocks, all_blocks, progress, tool, files, secret, usecret, out0, outdir, err, iv, fileData,
                    idx, names, pos, chain, reported, keyDerived, parsed, tampered, packed >>

\* pack_files, lines 62, 68-70: the footer is the SHA-256 of file_data
PackWriteFooter ==
    /\ tool = "custom"
    /\ pc = "p_footer"
    /\ out' = OnDisk(out.data \o sha256(fileData))
    /\ pc' = "packed"
    /\ packed' = "ok"
    /\ UNCHANGED << block_map, file_blocks, all_blocks, progress, tool, files, secret, usecret, out0, outdir, err, iv, fileData,
                    idx, names, pos, chain, reported, keyDerived, parsed, tampered >>

\* a write of lines 66-68 raises OSError (disk full, device error); the with
\* block closes the file and the exception leaves pack_files
PackWriteFail ==
    /\ tool = "custom"
    /\ pc \in { "p_header", "p_data", "p_footer" }
    /\ pc' = "pack_failed"
    /\ err' = "OSError"
    /\ packed' = "failed"
    /\ UNCHANGED << block_map, file_blocks, all_blocks, progress, tool, files, secret, usecret, out, out0, outdir, iv, fileData,
                    idx, names, pos, chain, reported, keyDerived, parsed, tampered >>

\* pack_files has no cancellation signal to check; the one way to stop a
\* running call is KeyboardInterrupt, raised between two steps.  No handler of
\* pack_files catches it; the with block of line 65 closes the output file.
PackInterrupt ==
    /\ tool = "custom"
    /\ pc \in { "p_read", "p_header", "p_data", "p_footer" }
    /\ pc' = "pack_cancelled"
    /\ err' = "KeyboardInterrupt"
    /\ packed' = "cancelled"
    /\ UNCHANGED << block_map, file_blocks, all_blocks, progress, tool, files, secret,
                    usecret, out, out0, outdir, iv, fileData, idx, names, pos, chain,
                    reported, keyDerived, parsed, tampered >>

----------------------------------------------------------------------------
(* unpack_file *)

\* bytes.decode('utf-8', errors='ignore') on the names of the model: bytes
\* that are not ASCII are dropped
decode_name(bs) == SelectSeq(bs, LAMBDA b : b < 128)

\* a key check that accepts every stored key part
key_check_skipped(stored_key_part, derived_key) == TRUE

\* unpack_file, line 87: stored_key_part != derived_key[:16]
key_check(stored_key_part, derived_key) ==
    stored_key_part = SubSeq(derived_key, 1, 16)

UnpackFail(e) ==
    /\ pc' = "unpack_failed"
    /\ err' = e

\* unpack_file, line 75: open(input_path, 'rb')
UnpackOpen ==
    /\ tool = "custom"
    /\ pc \in { "idle", "packed", "pack_failed" }
    /\ IF ~out.exists
       THEN UnpackFail("FileNotFoundError")
       ELSE pc' = "u_magic" /\ err' = ""
    /\ pos' = 0
    /\ reported' = << >>
    /\ parsed' = << >>
    /\ keyDerived' = FALSE
    /\ UNCHANGED << block_map, file_blocks, all_blocks, progress, tool, files, secret, usecret, out, out0, outdir, iv, fileData,
                    idx, names, chain, tampered, packed >>

\* unpack_file, lines 77-79: the magic is read and compared
UnpackMagic ==
    /\ tool = "custom"
    /\ pc = "u_magic"
    /\ parsed' = Append(parsed, "magic")
    /\ pos' = Len(Read(out.data, 0, 4))
    /\ IF Read(out.data, 0, 4) # MAGIC_NUMBER
       THEN UnpackFail("ValueError: invalid file format")
       ELSE pc' = "u_key" /\ UNCHANGED err
    /\ UNCHANGED << block_map, file_blocks, all_blocks, progress, tool, files, secret, usecret, out, out0, outdir, iv, fileData,
                    idx, names, chain, reported, keyDerived, tampered, packed >>

\* unpack_file, lines 81-92: version, IV and key part are read, the key is
\* derived and its first half compared with the stored one.  The version is
\* decoded and not looked at again.
UnpackKey ==
    /\ tool = "custom"
    /\ pc = "u_key"
    /\ LET d == out.data
           versionData == Read(d, 4, 4)
           ivData == Read(d, 8, 16)
           stored_key_part == Read(d, 24, 16)
           derived_key == derive_key(usecret, KEY_SALT)
       IN  IF Len(versionData) # 4
           THEN /\ UnpackFail("struct.error")
                /\ pos' = Len(d)
                /\ UNCHANGED << parsed, keyDerived, chain >>
           ELSE /\ parsed' = parsed \o << "version", "iv", "key_part" >>
                /\ keyDerived' = TRUE
                /\ pos' = 24 + Len(stored_key_part)
                /\ IF ~key_check(stored_key_part, derived_key)
                   THEN UnpackFail("ValueError: key verification failed")
                        /\ UNCHANGED chain
                   ELSE pc' = "u_mkdir" /\ chain' = ivData /\ UNCHANGED err
    /\ UNCHANGED << block_map, file_blocks, all_blocks, progress, tool, files, secret, usecret, out, out0, outdir, iv, fileData,
                    idx, names, reported, tampered, packed >>

\* unpack_file, line 95: os.makedirs(output_dir, exist_ok=True)
UnpackMkdir ==
    /\ tool = "custom"
    /\ pc = "u_mkdir"
    /\ outdir' = [outdir EXCEPT !.exists = TRUE]
    /\ pc' = "u_entry"
    /\ UNCHANGED << block_map, file_blocks, all_blocks, progress, tool, files, secret, usecret, out, out0, err, iv, fileData,
                    idx, names, pos, chain, reported, keyDerived, parsed, tampered, packed >>

\* index of the last b'/' of name, 0 when it has none
LastSlash(name) ==
    LET S == { i \in DOMAIN name : name[i] = 47 }
    IN  IF S = { } THEN 0 ELSE CHOOSE i \in S : \A j \in S : j <= i

\* os.path.join(output_dir, file_name): the directory part and the last
\* component of file_name
DirPart(name) == SubSeq(name, 1, LastSlash(name))

BasePart(name) == SubSeq(name, LastSlash(name) + 1, Len(name))

\* the directory part names a directory that exists: its components are
\* empty, b'.' or b'..' (the root, the output directory and those above it;
\* the output directory has no subdirectories)
DirExists(dir) ==
    /\ \A i \in DOMAIN dir : dir[i] \in { 46, 47 }
    /\ ~ \E i \in 1..(Len(dir) - 2) : dir[i] = 46 /\ dir[i + 1] = 46 /\ dir[i + 2] = 46

\* lines 119-120: what open(os.path.join(output_dir, file_name), 'wb')
\* raises, "" when it opens the file
open_error(file_name) ==
    IF \E i \in DOMAIN file_name : file_name[i] = 0
    THEN "ValueError: embedded null byte"
    ELSE IF BasePart(file_name) \in { << >>, << 46 >>, << 46, 46 >> }
    THEN "OSError"                                  \* IsADirectoryError
    ELSE IF ~DirExists(DirPart(file_name))
    THEN "OSError"                                  \* FileNotFoundError
    ELSE ""

\* unpack_file, lines 96-121: one iteration of the entry loop
UnpackEntry ==
    /\ tool = "custom"
    /\ pc = "u_entry"
    /\ LET d == out.data
           key == derive_key(usecret, KEY_SALT)
           file_name_len_data == Read(d, pos, 4)
           file_name_len == unpack_be(file_name_len_data)
           raw_name == Read(d, pos + 4, file_name_len)
           file_name == decode_name(raw_name)
           p2 == pos + 4 + Len(raw_name)
           file_size_data == Read(d, p2, 8)
           file_size == unpack_be(file_size_data)
           want == ((file_size + AES_block_size - 1) \div AES_block_size) * AES_block_size
           encrypted_content == Read(d, p2 + 8, want)
           unpadded == unpad(cbc_decrypt(key, chain, encrypted_content))
       IN  IF file_name_len_data = << >>
           THEN \* line 99: break
                /\ pc' = "u_footer"
                /\ UNCHANGED << err, pos, chain, reported, outdir >>
           ELSE IF Len(file_name_len_data) # 4
           THEN /\ UnpackFail("struct.error")
                /\ pos' = Len(d)
                /\ UNCHANGED << chain, reported, outdir >>
           ELSE IF Len(file_size_data) # 8
           THEN \* line 108: break
                /\ pc' = "u_footer"
                /\ pos' = p2 + Len(file_size_data)
                /\ UNCHANGED << err, chain, reported, outdir >>
           ELSE IF Len(encrypted_content) % AES_block_size # 0
           THEN \* cipher.decrypt: data not aligned to the block size
                /\ UnpackFail("ValueError: decrypt")
                /\ pos' = p2 + 8 + Len(encrypted_content)
                /\ UNCHANGED << chain, reported, outdir >>
           ELSE IF ~unpadded.ok
           THEN /\ UnpackFail("ValueError: unpad")
                /\ pos' = p2 + 8 + Len(encrypted_content)
                /\ chain' = NextChain(chain, encrypted_content)
                /\ UNCHANGED << reported, outdir >>
           ELSE IF open_error(file_name) # ""
           THEN \* line 120: open(output_path, 'wb') raises
                /\ UnpackFail(open_error(file_name))
                /\ pos' = p2 + 8 + Len(encrypted_content)
                /\ chain' = NextChain(chain, encrypted_content)
                /\ UNCHANGED << reported, outdir >>
           ELSE /\ outdir' = [outdir EXCEPT !.files = Put(@, file_name, unpadded.data)]
                /\ reported' = Append(reported, file_name)
                /\ pos' = p2 + 8 + Len(encrypted_content)
                /\ chain' = NextChain(chain, encrypted_content)
                /\ UNCHANGED << pc, err >>
    /\ UNCHANGED << block_map, file_blocks, all_blocks, progress, tool, files, secret, usecret, out, out0, iv, fileData,
                    idx, names, keyDerived, parsed, tampered, packed >>

\* unpack_file, lines 104 and 114: in_file.read(n) allocates n bytes before it
\* reads; a length field of ReadLimit or more can exhaust the memory
UnpackReadTooLarge ==
    /\ tool = "custom"
    /\ pc = "u_entry"
    /\ LET d == out.data
           file_name_len_data == Read(d, pos, 4)
           file_name_len == unpack_be(file_name_len_data)
           raw_name == Read(d, pos + 4, file_name_len)
           file_size_data == Read(d, pos + 4 + Len(raw_name), 8)
       IN  /\ Len(file_name_len_data) = 4
           /\ \/ file_name_len >= ReadLimit
              \/ Len(file_size_data) = 8 /\ unpack_be(file_size_data) >= ReadLimit
    /\ UnpackFail("MemoryError")
    /\ UNCHANGED << block_map, file_blocks, all_blocks, progress, tool, files, secret, usecret, out, out0, outdir, iv, fileData,
                    idx, names, pos, chain, reported, keyDerived, parsed, tampered, packed >>

\* unpack_file, lines 124-141: the footer is read and the checksum of the data
\* region recomputed; the two are not compared (lines 136-139 are comments)
UnpackFooter ==
    /\ tool = "custom"
    /\ pc = "u_footer"
    /\ IF Len(out.data) < 32
       THEN UnpackFail("OSError")       \* seek(-32, SEEK_END) before the start
       ELSE pc' = "done" /\ UNCHANGED err
    /\ UNCHANGED << block_map, file_blocks, all_blocks, progress, tool, files, secret, usecret, out, out0, outdir, iv, fileData,
                    idx, names, pos, chain, reported, keyDerived, parsed, tampered, packed >>

\* one byte of the packed container is changed on disk
Tamper ==
    /\ pc = "packed"
    /\ ~tampered
    /\ \E p \in 1..Len(out.data) :
           out' = [out EXCEPT !.data[p] = (@ + 1) % 256]
    /\ tampered' = TRUE
    /\ UNCHANGED << block_map, file_blocks, all_blocks, progress, tool, files, secret, usecret, out0, outdir, pc, err, iv, fileData,
                    idx, names, pos, chain, reported, keyDerived, parsed, packed >>

\* the length of the container pack_files wrote for the inputs
FullLength == Len(PackHeader(derive_key(secret, KEY_SALT), iv)) + Len(fileData) + 32

\* trailing bytes of the packed container are removed on disk
Truncate ==
    /\ pc = "packed"
    /\ Len(out.data) = FullLength
    /\ \E k \in 1..Len(out.data) :
           out' = [out EXCEPT !.data = SubSeq(@, 1, Len(@) - k)]
    /\ UNCHANGED << block_map, file_blocks, all_blocks, progress, tool, files, secret,
                    usecret, out0, outdir, pc, err, iv, fileData, idx, names, pos, chain,
                    reported, keyDerived, parsed, tampered, packed >>

----------------------------------------------------------------------------
(* BasePackager / SequentialPackager *)

\* the attributes of a KeyManager object (encryption.py, class KeyManager)
KeyManagerAttrs ==
    { "SALT_SIZE", "KDF_ITERATIONS", "KEY_LENGTHS", "_key_cache",
      "generate_key", "derive_key", "store_key", "get_key" }

\* zlib.crc32(d) as 4 bytes.  Stand-in: a positional checksum that changes
\* with every single-byte change of d.
crc32(d) ==
    LET s1 == Sum1(d)
        s2 == Sum2(d)
    IN  << s1 % 256, s2 % 256, (s1 + s2) % 256, Len(d) % 256 >>

\* str(path.relative_to(Path.cwd())).encode('utf-8') for the input paths of
\* the model, which lie in the directories d1/ and d2/ below the working
\* directory
rel_path(path) == << 100, 48 + path[1], 47 >> \o path[2]

\* SequentialPackager.package, lines 224-231: the entries of file_list
file_list(fs) ==
    [i \in DOMAIN fs |-> [path |-> rel_path(fs[i].path),
                          size |-> Len(fs[i].data),
                          sha256 |-> sha256(fs[i].data)]]

RECURSIVE EntryBytes(_)
EntryBytes(fl) ==
    IF fl = << >> THEN << >>
    ELSE pack_be(Len(fl[1].path), 2) \o fl[1].path \o pack_be(fl[1].size, 8)
         \o fl[1].sha256 \o EntryBytes(Tail(fl))

\* _generate_header, lines 59-73: entry count, entries, CRC in front
header_data(fl) ==
    LET body == pack_be(Len(fl), 4) \o EntryBytes(fl)
    IN  crc32(body) \o body

\* _generate_header: [raised, bytes].  The loop of lines 63-69 reads the keys
\* 'path', 'size' and 'sha256' of every entry; line 76 calls
\* key_manager.has_key(), which KeyManager does not define.
generate_header(fl) ==
    IF \E i \in DOMAIN fl : { "size", "sha256" } \ DOMAIN fl[i] # { }
    THEN [raised |-> "KeyError", bytes |-> << >>]       \* line 68: file_info['size']
    ELSE IF "has_key" \notin KeyManagerAttrs
    THEN [raised |-> "AttributeError", bytes |-> << >>]
    ELSE [raised |-> "",
          bytes |-> HEADER_MAGIC \o pack_be(BasePackager_VERSION, 1) \o header_data(fl)]

RECURSIVE ParseEntries(_, _, _)
\* _parse_header, lines 110-119: count entries from offset
ParseEntries(hd, offset, count) ==
    IF count = 0 THEN << >>
    ELSE LET path_len == unpack_be(SubSeq(hd, offset + 1, offset + 2))
             path == SubSeq(hd, offset + 3, Min(offset + 2 + path_len, Len(hd)))
             o2 == offset + 2 + path_len
             size == unpack_be(SubSeq(hd, o2 + 1, o2 + 8))
             sha == SubSeq(hd, o2 + 9, Min(o2 + 40, Len(hd)))
         IN  << [path |-> path, size |-> size, sha256 |-> sha] >>
             \o ParseEntries(hd, o2 + 40, count - 1)

\* _parse_header(header_data): [raised, files, trace]; trace lists what was
\* decoded or called, in order
parse_header(hd) ==
    IF SubSeq(hd, 1, Min(6, Len(hd))) # HEADER_MAGIC
    THEN [raised |-> "PackingError: invalid format", files |-> << >>,
          trace |-> << "magic" >>]
    ELSE IF Len(hd) < 7
    THEN [raised |-> "struct.error", files |-> << >>, trace |-> << "magic" >>]
    ELSE IF hd[7] # BasePackager_VERSION
    THEN [raised |-> "PackingError: unsupported version", files |-> << >>,
          trace |-> << "magic", "version" >>]
    ELSE IF "has_key" \notin KeyManagerAttrs
    THEN [raised |-> "AttributeError", files |-> << >>,
          trace |-> << "magic", "version", "has_key" >>]
    ELSE LET plain == SubSeq(hd, 8, Len(hd))
         IN  IF Len(plain) < 4
             THEN [raised |-> "struct.error", files |-> << >>,
                   trace |-> << "magic", "version", "has_key" >>]
             ELSE IF crc32(SubSeq(plain, 5, Len(plain))) # SubSeq(plain, 1, 4)
             THEN [raised |-> "PackingError: header checksum", files |-> << >>,
                   trace |-> << "magic", "version", "has_key", "checksum" >>]
             ELSE [raised |-> "",
                   files |-> ParseEntries(plain, 8,
                                 Min(unpack_be(SubSeq(plain, 5, Min(8, Len(plain)))), MaxFiles + 1)),
                   trace |-> << "magic", "version", "has_key", "checksum",
                                "file_count", "entries" >>]

PackFail(e) ==
    /\ pc' = "pack_failed"
    /\ err' = e

\* SequentialPackager.package, line 219: validate_paths(*files)
SeqValidate ==
    /\ tool = "sequential"
    /\ pc = "idle"
    /\ IF \E i \in DOMAIN files : ~files[i].exists
       THEN PackFail("FileSystemError")
       ELSE pc' = "s_header" /\ UNCHANGED err
    /\ packed' = (IF \E i \in DOMAIN files : ~files[i].exists THEN "failed" ELSE "running")
    /\ UNCHANGED << block_map, file_blocks, all_blocks, progress, tool, files, secret, usecret, out, out0, outdir, iv, fileData,
                    idx, names, pos, chain, reported, keyDerived, parsed, tampered >>

\* SequentialPackager.package, lines 224-253: the manifest is built and the
\* header generated; with a header, the output is opened and written
SeqPackage ==
    /\ tool = "sequential"
    /\ pc = "s_header"
    /\ LET h == generate_header(file_list(files))
       IN  IF h.raised # ""
           THEN PackFail(h.raised) /\ UNCHANGED << out, names >>
           ELSE /\ out' = OnDisk(h.bytes)
                /\ names' = [i \in DOMAIN files |-> rel_path(files[i].path)]
                /\ pc' = "s_payload"
                /\ UNCHANGED err
    /\ packed' = (IF generate_header(file_list(files)).raised # "" THEN "failed" ELSE "running")
    /\ UNCHANGED << block_map, file_blocks, all_blocks, progress, tool, files, secret, usecret, out0, outdir, iv, fileData,
                    idx, pos, chain, reported, keyDerived, parsed, tampered >>

\* SequentialPackager.unpack, lines 257-258: the package path is validated and
\* the output directory created
SeqUnpackStart ==
    /\ tool = "sequential"
    /\ pc \in { "idle", "pack_failed" }
    /\ IF ~out.exists
       THEN UnpackFail("FileSystemError") /\ UNCHANGED outdir
       ELSE /\ outdir' = [outdir EXCEPT !.exists = TRUE]
            /\ pc' = "su_magic"
            /\ err' = ""
    /\ pos' = 0
    /\ reported' = << >>
    /\ parsed' = << >>
    /\ keyDerived' = FALSE
    /\ UNCHANGED << block_map, file_blocks, all_blocks, progress, tool, files, secret, usecret, out, out0, iv, fileData,
                    idx, names, chain, tampered, packed >>

\* SequentialPackager.unpack, lines 262-264
SeqUnpackMagic ==
    /\ tool = "sequential"
    /\ pc = "su_magic"
    /\ parsed' = Append(parsed, "magic")
    /\ pos' = Len(Read(out.data, 0, 6))
    /\ IF Read(out.data, 0, 6) # HEADER_MAGIC
       THEN UnpackFail("PackingError: invalid package")
       ELSE pc' = "su_header" /\ UNCHANGED err
    /\ UNCHANGED << block_map, file_blocks, all_blocks, progress, tool, files, secret, usecret, out, out0, outdir, iv, fileData,
                    idx, names, chain, reported, keyDerived, tampered, packed >>

\* SequentialPackager.unpack, lines 266-269: the 4 bytes after the magic are
\* taken as the header size, that many bytes are read from offset 0 and
\* handed to _parse_header
SeqUnpackHeader ==
    /\ tool = "sequential"
    /\ pc = "su_header"
    /\ LET size_data == Read(out.data, 6, 4)
           header_size == unpack_be(size_data)
           hd == Read(out.data, 0, header_size)
           r == parse_header(hd)
       IN  IF Len(size_data) # 4
           THEN /\ UnpackFail("struct.error")
                /\ pos' = Len(out.data)
                /\ UNCHANGED parsed
           ELSE /\ pos' = Len(hd)
                /\ parsed' = parsed \o << "header_size" >> \o r.trace
                /\ IF r.raised # ""
                   THEN UnpackFail(r.raised)
                   ELSE pc' = "su_extract" /\ UNCHANGED err
    /\ UNCHANGED << block_map, file_blocks, all_blocks, progress, tool, files, secret, usecret, out, out0, outdir, iv, fileData,
                    idx, names, chain, reported, keyDerived, tampered, packed >>

----------------------------------------------------------------------------
(* ChunkedPackager *)

\* ChunkedPackager(chunk_size = 8): the chunk length handed to the packager
ChunkSize == 8

\* what a ChunkedPackager object has: its own attributes and methods and
\* those of BasePackager
ChunkedPackagerAttrs ==
    { "HEADER_MAGIC", "VERSION", "CHUNK_SIZE", "key_manager", "cipher",
      "_progress_callback", "set_progress_callback", "_update_progress",
      "_generate_header", "_parse_header", "chunk_size", "block_map",
      "_split_file", "package", "_encrypt_chunk" }

RECURSIVE split_file(_)
\* _split_file: the chunks f.read(chunk_size) returns until the file ends
split_file(data) ==
    IF data = << >> THEN << >>
    ELSE << SubSeq(data, 1, Min(ChunkSize, Len(data))) >>
         \o split_file(SubSeq(data, ChunkSize + 1, Len(data)))

\* line 327: hashlib.sha256(chunk).digest()[:16]
block_id(chunk) == SubSeq(sha256(chunk), 1, 16)

\* lines 324-334: the entry of one input file in file_blocks
FileBlocks(f) ==
    [path |-> rel_path(f.path),
     blocks |-> [k \in DOMAIN split_file(f.data) |-> block_id(split_file(f.data)[k])]]

\* all chunks of the input files
ChunksOf(fs) ==
    UNION { { split_file(fs[i].data)[k] : k \in DOMAIN split_file(fs[i].data) } :
                i \in DOMAIN fs }

RECURSIVE Shuffles(_)
\* random.shuffle(all_blocks): every order of the keys can come out
Shuffles(S) ==
    IF S = { } THEN { << >> }
    ELSE UNION { { << x >> \o t : t \in Shuffles(S \ { x }) } : x \in S }

\* ChunkedPackager.package, line 319: validate_paths(*files)
ChunkValidate ==
    /\ tool = "chunked"
    /\ pc = "idle"
    /\ IF \E i \in DOMAIN files : ~files[i].exists
       THEN PackFail("FileSystemError")
       ELSE pc' = "c_split" /\ UNCHANGED err
    /\ packed' = (IF \E i \in DOMAIN files : ~files[i].exists THEN "failed" ELSE "running")
    /\ UNCHANGED << block_map, file_blocks, all_blocks, progress, tool, files, secret,
                    usecret, out, out0, outdir, iv, fileData, idx, names, pos, chain,
                    reported, keyDerived, parsed, tampered >>

\* ChunkedPackager.package, lines 320-338: the files are split, every chunk
\* is entered in block_map under its id, and the keys are shuffled
ChunkSplit ==
    /\ tool = "chunked"
    /\ pc = "c_split"
    /\ file_blocks' = [i \in DOMAIN files |-> FileBlocks(files[i])]
    /\ block_map' = [b \in (DOMAIN block_map) \cup { block_id(c) : c \in ChunksOf(files) } |->
                        IF \E c \in ChunksOf(files) : block_id(c) = b
                        THEN CHOOSE c \in ChunksOf(files) : block_id(c) = b
                        ELSE block_map[b]]
    /\ all_blocks' \in Shuffles(DOMAIN block_map')
    /\ pc' = "c_header"
    /\ UNCHANGED << progress, tool, files, secret, usecret, out, out0, outdir, err, iv,
                    fileData, idx, names, pos, chain, reported, keyDerived, parsed,
                    tampered, packed >>

\* ChunkedPackager.package, lines 341-364: the header is generated from
\* file_blocks; with a header, the output is opened and header, index and
\* blocks are written
ChunkPackage ==
    /\ tool = "chunked"
    /\ pc = "c_header"
    /\ LET h == generate_header(file_blocks)
       IN  IF h.raised # ""
           THEN PackFail(h.raised) /\ UNCHANGED out
           ELSE /\ out' = OnDisk(h.bytes)
                /\ pc' = "c_payload"
                /\ UNCHANGED err
    /\ packed' = (IF generate_header(file_blocks).raised # "" THEN "failed" ELSE "running")
    /\ UNCHANGED << block_map, file_blocks, all_blocks, progress, tool, files, secret,
                    usecret, out0, outdir, iv, fileData, idx, names, pos, chain,
                    reported, keyDerived, parsed, tampered >>

\* PackageManager.unpack, line 395, on a ChunkedPackager: the object has no
\* unpack method
ChunkUnpack ==
    /\ tool = "chunked"
    /\ pc \in { "idle", "pack_failed" }
    /\ IF "unpack" \notin ChunkedPackagerAttrs
       THEN UnpackFail("AttributeError")
       ELSE pc' = "cu_header" /\ err' = ""
    /\ pos' = 0
    /\ reported' = << >>
    /\ parsed' = << >>
    /\ keyDerived' = FALSE
    /\ UNCHANGED << block_map, file_blocks, all_blocks, progress, tool, files, secret,
                    usecret, out, out0, outdir, iv, fileData, idx, names, chain,
                    tampered, packed >>

\* the input lists of a further package call on the same packager
AgainLists == { << f >> : f \in FileChoices }

\* the caller hands another file list to package of the same ChunkedPackager
\* object (line 317); block_map is an attribute of the object, set in
\* __init__ (line 309) and not again
ChunkAgain ==
    /\ tool = "chunked"
    /\ pc = "pack_failed"
    /\ files' \in AgainLists
    /\ pc' = "idle"
    /\ err' = ""
    /\ packed' = "none"
    /\ file_blocks' = << >>
    /\ all_blocks' = << >>
    /\ UNCHANGED << block_map, progress, tool, secret, usecret, out, out0, outdir, iv,
                    fileData, idx, names, pos, chain, reported, keyDerived, parsed,
                    tampered >>

----------------------------------------------------------------------------
(* Specifications *)

RECURSIVE Payload(_)
\* SequentialPackager.package, lines 243-246: the file contents back to back
Payload(fs) == IF fs = << >> THEN << >> ELSE fs[1].data \o Payload(Tail(fs))

\* the container lines 57-73, 82 and 240-246 lay out for fs without a key
PlainContainer(fs) ==
    HEADER_MAGIC \o pack_be(BasePackager_VERSION, 1) \o header_data(file_list(fs))
    \o Payload(fs)

\* files a caller can hand to SequentialPackager.unpack: a container in the
\* layout above, one with another version byte, one with a changed checksum
\* byte
SeqContainers(fs) ==
    IF \E i \in DOMAIN fs : ~fs[i].exists THEN { }
    ELSE LET c == PlainContainer(fs)
         IN  { OnDisk(c),
               OnDisk([c EXCEPT ![7] = BasePackager_VERSION + 1]),
               OnDisk([c EXCEPT ![8] = (@ + 1) % 256]) }

\* entry names a container can carry that pack_files does not write
CraftedNames == { << 46, 46, 47, 120 >>, << 47, 120 >> }     \* b'../x', b'/x'

\* files a caller can hand to unpack_file: a container in the layout of
\* pack_files for the secret s, with one entry of one byte under such a name
CraftedContainers(s) ==
    LET key == derive_key(s, KEY_SALT)
        v == Rep(3, AES_block_size)
        entry(n) == FileEntry(n, 1, cbc_encrypt(key, v, pad(<< 7 >>)))
    IN  { OnDisk(PackHeader(key, v) \o entry(n) \o sha256(entry(n))) : n \in CraftedNames }

Init ==
    /\ tool \in Tools
    /\ files \in InputLists
    /\ secret \in Secrets
    /\ usecret \in USecrets
    /\ tool # "custom" => secret = << 107 >> /\ usecret = secret
    /\ out0 \in { Absent, OldFile }
                \cup (IF tool = "sequential" THEN SeqContainers(files)
                      ELSE IF tool = "custom" THEN CraftedContainers(secret)
                      ELSE { })
    \* a caller that was handed a container from elsewhere has nothing to pack
    /\ out0 \in CraftedContainers(secret) => files = << >>
    /\ out = out0
    /\ outdir = [exists |-> FALSE, files |-> { }]
    /\ pc = "idle"
    /\ err = ""
    /\ iv = << >>
    /\ fileData = << >>
    /\ idx = 1
    /\ names = << >>
    /\ pos = 0
    /\ chain = << >>
    /\ reported = << >>
    /\ keyDerived = FALSE
    /\ parsed = << >>
    /\ tampered = FALSE
    /\ packed = "none"
    /\ block_map = [b \in { } |-> << >>]
    /\ file_blocks = << >>
    /\ all_blocks = << >>
    /\ progress = << >>

NextCustom ==
    \/ PackStart
    \/ PackReadFile
    \/ PackOpen
    \/ PackWriteHeader
    \/ PackWriteData
    \/ PackWriteFooter
    \/ PackWriteFail
    \/ PackInterrupt
    \/ UnpackOpen
    \/ UnpackMagic
    \/ UnpackKey
    \/ UnpackMkdir
    \/ UnpackEntry
    \/ UnpackReadTooLarge
    \/ UnpackFooter

NextSequential ==
    \/ SeqValidate
    \/ SeqPackage
    \/ SeqUnpackStart
    \/ SeqUnpackMagic
    \/ SeqUnpackHeader

NextChunked ==
    \/ ChunkValidate
    \/ ChunkSplit
    \/ ChunkPackage
    \/ ChunkUnpack
    \/ ChunkAgain

Next == NextCustom \/ NextSequential \/ NextChunked

Spec == Init /\ [][Next]_vars

\* pack_files and unpack_file with the right secret, and one byte of the
\* container changed in between
InitTamper ==
    /\ Init
    /\ tool = "custom"
    /\ secret = << 107 >>
    /\ usecret = secret
    /\ out0 = Absent
    /\ files # << >>
    /\ \A i \in DOMAIN files : files[i].exists

NextTamper == NextCustom \/ Tamper

SpecTamper == InitTamper /\ [][NextTamper]_vars

\* pack_files and unpack_file with the right secret, and the container cut
\* short in between
NextTruncate == NextCustom \/ Truncate

SpecTruncate == InitTamper /\ [][NextTruncate]_vars

----------------------------------------------------------------------------
(* Properties *)

UnpackEnded == pc \in { "done", "unpack_failed" }

\* unpack has passed its header checks and is at or beyond the extraction
Extracting == pc \in { "u_mkdir", "u_entry", "u_footer", "su_extract", "done" }

NothingExtracted ==
    /\ outdir = [exists |-> FALSE, files |-> { }]
    /\ reported = << >>

\* the name pack stores for input file i
EntryName(i) ==
    IF tool = "custom" THEN basename(files[i].path) ELSE rel_path(files[i].path)

\* the input files as a directory listing
ExpectedListing ==
    { [name |-> EntryName(i), data |-> files[i].data] : i \in DOMAIN files }

\* C1: round trip.  Unpacking, with the secret of pack, the container pack
\* produced succeeds and yields exactly the input files: same names, same
\* bytes (runs that exhaust the memory set aside).
C1_RoundTrip ==
    (packed = "ok" /\ ~tampered /\ usecret = secret /\ UnpackEnded
        /\ err # "MemoryError")
        => (pc = "done" /\ outdir.files = ExpectedListing)

KeyError == "ValueError: key verification failed"

\* C2, as claimed: for every secret S' # S, unpack of pack(F, S) with S' fails
\* with the key verification error and extracts nothing.
C2_WrongKeyRejected ==
    (packed = "ok" /\ ~tampered /\ usecret # secret)
        => /\ ~Extracting
           /\ NothingExtracted
           /\ UnpackEnded => (pc = "unpack_failed" /\ err = KeyError)

\* C2, amended: for every secret S' whose HMAC key (the secret padded with
\* zero bytes to the hash block, or hashed when longer) differs from the one
\* of S, unpack of pack(F, S) with S' fails with the key verification error
\* before the output directory is created or anything is extracted.
C2_OtherKeyRejected ==
    (packed = "ok" /\ ~tampered /\ HmacKey(usecret) # HmacKey(secret))
        => /\ ~Extracting
           /\ NothingExtracted
           /\ UnpackEnded => (pc = "unpack_failed" /\ err = KeyError)

C2_Witness ==
    /\ packed = "ok"
    /\ Len(names) = MaxFiles
    /\ HmacKey(usecret) # HmacKey(secret)
    /\ pc = "unpack_failed"
    /\ err = KeyError

\* C3: tamper detection.  After one byte of a packed container was changed,
\* unpack with the right secret does not end successfully.
C3_TamperDetected ==
    (packed = "ok" /\ tampered /\ usecret = secret) => pc # "done"

\* the container pack_files writes in full: header, file data, footer
CompleteContainer(o) ==
    /\ o.exists
    /\ iv # << >>
    /\ o.data = PackHeader(derive_key(secret, KEY_SALT), iv) \o fileData
                \o sha256(fileData)

\* C4: atomic creation.  While pack runs and after it failed, the output path
\* holds what it held before the call or a complete container.
C4_AtomicCreation ==
    packed \in { "running", "failed" } => (out = out0 \/ CompleteContainer(out))

\* C5: after a failed pack the output path holds what it held before the
\* call: no partial output, an existing file kept with its contents.
C5_FailedPackRestores ==
    pc = "pack_failed" => out = out0

\* C6: integrity gate.  Every file unpack wrote and reported has the content
\* hash pack computed for an input file of that name.
C6_IntegrityGate ==
    (packed = "ok" /\ pc = "done")
        => \A f \in outdir.files :
               f.name \in { reported[k] : k \in DOMAIN reported }
                   => \E i \in DOMAIN files :
                          /\ EntryName(i) = f.name
                          /\ sha256(files[i].data) = sha256(f.data)

\* C7: duplicate relative paths.  When two input files map to the same entry
\* name, pack fails without touching the output path.
C7_DuplicatesRejected ==
    (\E i, j \in DOMAIN files : i < j /\ EntryName(i) = EntryName(j))
        => (out = out0 /\ packed # "ok")

NotAContainerError ==
    { "ValueError: invalid file format", "PackingError: invalid package" }

\* C8: magic first.  When unpack rejects its input as not a container, it has
\* decoded nothing but the magic, derived no key, and created nothing at the
\* output directory.
C8_MagicFirst ==
    (pc = "unpack_failed" /\ err \in NotAContainerError)
        => /\ parsed = << "magic" >>
           /\ ~keyDerived
           /\ NothingExtracted

\* the version field of the container on disk differs from the one the
\* running tool writes
OtherVersion ==
    IF tool = "custom"
    THEN Len(out.data) >= 8 /\ Read(out.data, 4, 4) # pack_be(VERSION, 4)
    ELSE Len(out.data) >= 7 /\ out.data[7] # BasePackager_VERSION

\* C9: version gate.  Unpack of a container with another version never gets
\* to the extraction, and when it ends it has failed with the
\* unsupported-version error.
C9_VersionGate ==
    (OtherVersion /\ (Extracting \/ UnpackEnded) /\ err \notin NotAContainerError)
        => /\ ~Extracting
           /\ err = "PackingError: unsupported version"
           /\ reported = << >>

\* the header bytes SequentialPackager.unpack hands to _parse_header
HeaderRead == Read(out.data, 0, unpack_be(Read(out.data, 6, 4)))

\* magic and version of the header are accepted and its stored checksum is not
\* the checksum of the bytes behind it
ChecksumMismatch ==
    LET hd == HeaderRead
    IN  /\ Len(hd) >= 11
        /\ SubSeq(hd, 1, 6) = HEADER_MAGIC
        /\ hd[7] = BasePackager_VERSION
        /\ crc32(SubSeq(hd, 12, Len(hd))) # SubSeq(hd, 8, 11)

\* C10: checksum before fields.  Header decode of a header whose checksum does
\* not match fails with the header-checksum error; the entry count is not
\* decoded and nothing is extracted.
C10_ChecksumGate ==
    (tool = "sequential" /\ UnpackEnded /\ "header_size" \in { parsed[k] : k \in DOMAIN parsed }
        /\ ChecksumMismatch)
        => /\ pc = "unpack_failed"
           /\ err = "PackingError: header checksum"
           /\ "file_count" \notin { parsed[k] : k \in DOMAIN parsed }
           /\ reported = << >>
           /\ outdir.files = { }

\* the key pack derived from its secret
PackKey == derive_key(secret, KEY_SALT)

\* the container pack_files wrote is on disk as written
Untouched == tool = "custom" /\ packed = "ok" /\ ~tampered /\ Len(out.data) = FullLength

\* 16 consecutive bytes of key occur in d
KeyPartIn(d, key) ==
    \E p \in 0..(Len(d) - 16) : \E q \in 0..(Len(key) - 16) :
        Read(d, p, 16) = SubSeq(key, q + 1, q + 16)

\* C11: no key material in the container.  The container pack wrote holds no
\* run of 16 bytes of the derived key.
C11_NoKeyMaterial ==
    Untouched => ~KeyPartIn(out.data, PackKey)

\* the bytes of the container in front of the first file entry
HeaderRegion == Read(out.data, 0, Len(PackHeader(PackKey, iv)))

\* C12: salt in the header.  The salt pack derived its key with is stored in
\* the header of the container it wrote.
C12_SaltInHeader ==
    Untouched => \E p \in 0..(Len(HeaderRegion) - Len(KEY_SALT)) :
                     Read(HeaderRegion, p, Len(KEY_SALT)) = KEY_SALT

\* the logical positions <<file, chunk>> of the input
Positions ==
    UNION { { << i, k >> : k \in DOMAIN split_file(files[i].data) } : i \in DOMAIN files }

ChunkAt(pos2) == split_file(files[pos2[1]].data)[pos2[2]]

DuplicateChunk ==
    \E a, b \in Positions : a # b /\ ChunkAt(a) = ChunkAt(b)

RECURSIVE BlockPool(_)
\* the chunks of the ids, back to back
BlockPool(ids) ==
    IF ids = << >> THEN << >>
    ELSE block_map[ids[1]] \o BlockPool(Tail(ids))

\* the last n bytes of d
Suffix(d, n) == SubSeq(d, Len(d) - n + 1, Len(d))

\* C14: deduplication.  A chunked pack of existing files with two identical
\* chunks ends with a container whose payload is one copy of every distinct
\* chunk, and the two positions carry the same block id.
C14_Dedup ==
    (tool = "chunked" /\ packed \in { "ok", "failed" } /\ DuplicateChunk
        /\ \A i \in DOMAIN files : files[i].exists)
        => /\ packed = "ok"
           /\ Len(all_blocks) = Cardinality(ChunksOf(files))
           /\ Len(out.data) >= Len(BlockPool(all_blocks))
           /\ Suffix(out.data, Len(BlockPool(all_blocks))) = BlockPool(all_blocks)
           /\ \A a, b \in Positions :
                  ChunkAt(a) = ChunkAt(b)
                      => file_blocks[a[1]].blocks[a[2]] = file_blocks[b[1]].blocks[b[2]]

RECURSIVE Declared(_)
\* the block ids in the order the file entries declare them
Declared(fb) == IF fb = << >> THEN << >> ELSE fb[1].blocks \o Declared(Tail(fb))

RECURSIVE FirstOccurrences(_)
\* a sequence without the repetitions of earlier elements
FirstOccurrences(ids) ==
    IF ids = << >> THEN << >>
    ELSE LET front == FirstOccurrences(SubSeq(ids, 1, Len(ids) - 1))
             last == ids[Len(ids)]
         IN  IF \E k \in DOMAIN front : front[k] = last THEN front
             ELSE Append(front, last)

\* C15: chunk shuffling.  For at least 2 files of at least 2 chunks each (and
\* at least 2 distinct blocks), the order in which the blocks are laid out
\* differs from the order in which the file entries declare them.
C15_Shuffled ==
    (tool = "chunked" /\ Len(file_blocks) >= 2 /\ Len(all_blocks) >= 2
        /\ \A i \in DOMAIN file_blocks : Len(file_blocks[i].blocks) >= 2)
        => all_blocks # FirstOccurrences(Declared(file_blocks))

\* C16: chunked unpack.  Unpack of an existing package with a chunked packager
\* ends well or with the missing-block error of the files it cannot rebuild.
C16_MissingBlock ==
    (tool = "chunked" /\ UnpackEnded /\ out.exists)
        => err \in { "", "PackingError: missing block" }

\* C17: truncation.  Unpack of a packed container that lost trailing bytes
\* never ends successfully.
C17_TruncationDetected ==
    (tool = "custom" /\ packed = "ok" /\ Len(out.data) < FullLength /\ UnpackEnded)
        => pc = "unpack_failed"

InputError == { "FileNotFoundError", "FileSystemError" }

\* C18: missing input.  When an input path does not exist, pack never creates,
\* truncates or writes the output file, never succeeds, and a failed pack
\* has failed with an input error.
C18_MissingInputRejected ==
    (\E i \in DOMAIN files : ~files[i].exists)
        => /\ out = out0
           /\ packed # "ok"
           /\ pc = "pack_failed" => err \in InputError

C18_Witness ==
    /\ Len(files) = 2
    /\ files[1].exists /\ files[1].data # << >>
    /\ ~files[2].exists
    /\ out0 = OldFile
    /\ pc = "pack_failed"
    /\ err \in InputError

RECURSIVE TotalBytes(_)
\* the sum of the sizes of the input files
TotalBytes(fs) == IF fs = << >> THEN 0 ELSE Len(fs[1].data) + TotalBytes(Tail(fs))

\* C19: progress.  A pack or unpack call that ended successfully on a
\* non-empty input has reported progress: first 0, never decreasing, never
\* beyond the total, last the total.
C19_Progress ==
    (pc \in { "packed", "done" } /\ TotalBytes(files) > 0)
        => /\ progress # << >>
           /\ progress[1] = 0
           /\ \A k \in 1..(Len(progress) - 1) : progress[k] <= progress[k + 1]
           /\ progress[Len(progress)] = TotalBytes(files)

\* C20: cancellation.  After a cancelled pack the output path holds what it
\* held before the call.
C20_CancelDiscards ==
    pc = "pack_cancelled" => out = out0

\* C21: failed unpack cleans up.  After a failed unpack none of the files the
\* call extracted remain in the output directory (runs that exhaust the
\* memory set aside).
C21_FailedUnpackCleans ==
    (pc = "unpack_failed" /\ err # "MemoryError") => outdir.files = { }

RECURSIVE EntriesLength(_)
\* the number of bytes pack_files writes for the entries of fs
EntriesLength(fs) ==
    IF fs = << >> THEN 0
    ELSE 4 + Len(basename(fs[1].path)) + 8 + Len(pad(fs[1].data))
         + EntriesLength(Tail(fs))

\* the offset at which pack_files wrote entry k (the trailer for k beyond the
\* last entry)
EntryStart(k) == Len(PackHeader(PackKey, iv)) + EntriesLength(SubSeq(files, 1, k - 1))

\* C22: entry extents.  Having consumed n entries of the container pack wrote,
\* the reader stands at the offset where the writer started entry n + 1.
C22_EntryOffsets ==
    (Untouched /\ usecret = secret /\ pc = "u_entry" /\ Len(reported) <= Len(files))
        => pos = EntryStart(Len(reported) + 1)

\* the number of bytes _generate_header returns for the files fs
HeaderLength(fs) == Len(HEADER_MAGIC) + 1 + Len(header_data(file_list(fs)))

\* C23: header extent.  After the header of a sequential container was read
\* for parsing, the reader stands where the payload starts.
C23_HeaderExtent ==
    (tool = "sequential" /\ out = OnDisk(PlainContainer(files))
        /\ (\A i \in DOMAIN files : files[i].exists)
        /\ "header_size" \in { parsed[k] : k \in DOMAIN parsed })
        => pos = HeaderLength(files)

\* the bytes w occur in d
Contains(d, w) == \E p \in 0..(Len(d) - Len(w)) : Read(d, p, Len(w)) = w

RECURSIVE Flatten(_)
\* the elements of a sequence of byte strings, back to back
Flatten(ss) == IF ss = << >> THEN << >> ELSE ss[1] \o Flatten(Tail(ss))

\* C24: chunked manifest.  After a chunked pack of existing files the
\* container holds, for every file, its path, size and content hash, and its
\* block ids in order.
C24_ManifestComplete ==
    (tool = "chunked" /\ packed \in { "ok", "failed" } /\ files # << >>
        /\ \A i \in DOMAIN files : files[i].exists)
        => \A i \in DOMAIN files :
               /\ out.exists
               /\ Contains(out.data, EntryBytes(<< file_list(files)[i] >>))
               /\ Contains(out.data, Flatten(FileBlocks(files[i]).blocks))

\* C25: one position per block.  After a chunked pack that had blocks to
\* write, no id is twice in the block order and the container ends with the
\* index (the ids in that order) and the blocks in the same order.
C25_OnePosition ==
    (tool = "chunked" /\ packed \in { "ok", "failed" } /\ all_blocks # << >>)
        => /\ \A j, k \in DOMAIN all_blocks : all_blocks[j] = all_blocks[k] => j = k
           /\ LET tail == Flatten(all_blocks) \o BlockPool(all_blocks)
              IN  /\ Len(out.data) >= Len(tail)
                  /\ Suffix(out.data, Len(tail)) = tail

\* C26: block offsets.  Every block of the pool has the chunk length of the
\* packager, so that the offset of the k-th block follows from k alone.
C26_UniformBlocks ==
    (tool = "chunked" /\ all_blocks # << >>)
        => \A k \in DOMAIN all_blocks : Len(block_map[all_blocks[k]]) = ChunkSize

\* a relative name that stays below the output directory: not absolute, no
\* b'..' in its directory part
Inside(name) ==
    /\ name # << >>
    /\ name[1] # 47
    /\ ~ \E i \in 1..(Len(DirPart(name)) - 1) :
             DirPart(name)[i] = 46 /\ DirPart(name)[i + 1] = 46

\* C27: containment.  Every file unpack wrote lies inside the output
\* directory.
C27_InsideOutputDir ==
    \A f \in outdir.files : Inside(f.name)

\* C28: trailer.  When the entry loop of unpack_file has ended on the
\* container pack_files wrote, the reader has not read into the 32-byte
\* trailer.
C28_StopsAtTrailer ==
    (Untouched /\ pc \in { "u_footer", "done" }) => pos <= FullLength - 32

\* C29: blocks of this call.  The blocks a chunked package call lays out are
\* exactly the distinct chunks of the files of that call.
C29_OnlyOwnBlocks ==
    (tool = "chunked" /\ pc = "c_header")
        => { all_blocks[k] : k \in DOMAIN all_blocks }
               = { block_id(c) : c \in ChunksOf(files) }

\* C30: error wrapping.  A package call of a packager that failed after its
\* inputs were validated has failed with PackingError.
C30_WrappedAsPackingError ==
    (tool \in { "sequential", "chunked" } /\ pc = "pack_failed"
        /\ \A i \in DOMAIN files : files[i].exists)
        => err = "PackingError"

====
